---------------------------- MODULE Spec2Model ----------------------------
(***************************************************************************)
(* Model of the avito-parser acquisition engine                            *)
(* (internal/parser/avito.go, main.go, internal/database).                 *)
(*                                                                         *)
(* Strings are sequences of one-character strings, so that TrimSpace,      *)
(* HasPrefix, ReplaceAll and "+" are computed as the Go code computes them.*)
(***************************************************************************)
EXTENDS Integers, Sequences, FiniteSets, TLC

(***************************************************************************)
(* Bounds of the model (not program constants).                            *)
(***************************************************************************)
\* at most this many of the six title selectors match on one element
MaxMatching == 2
\* largest value of the wall clock (time.Now().UnixNano()) in SpecExtract
MaxClock == 2
\* store events and SaveListing calls in one behaviour of SpecSave
MaxLog == 3

(***************************************************************************)
(* String helpers (package strings, fmt).                                  *)
(***************************************************************************)
None == [kind |-> "none"]

IsSpace(c) == c \in {" ", "\t", "\n", "\r"}

RECURSIVE TrimLeft(_)
TrimLeft(s) ==
    IF s = <<>> THEN <<>>
    ELSE IF IsSpace(Head(s)) THEN TrimLeft(Tail(s)) ELSE s

RECURSIVE TrimRight(_)
TrimRight(s) ==
    IF s = <<>> THEN <<>>
    ELSE IF IsSpace(s[Len(s)]) THEN TrimRight(SubSeq(s, 1, Len(s) - 1)) ELSE s

\* strings.TrimSpace
TrimSpace(s) == TrimRight(TrimLeft(s))

\* strings.HasPrefix
HasPrefix(s, p) == Len(s) >= Len(p) /\ SubSeq(s, 1, Len(p)) = p

\* strings.ReplaceAll(s, old, new) for one-character old and new
ReplaceAll(s, old, new) == [i \in 1..Len(s) |-> IF s[i] = old THEN new ELSE s[i]]

Digit(d) == <<"0", "1", "2", "3", "4", "5", "6", "7", "8", "9">>[d + 1]

\* fmt.Sprintf("%d", n) for n >= 0
RECURSIVE Itoa(_)
Itoa(n) == IF n < 10 THEN <<Digit(n)>> ELSE Itoa(n \div 10) \o <<Digit(n % 10)>>

StrHttp == <<"h", "t", "t", "p">>
StrOrigin == <<"h", "t", "t", "p", "s", ":", "/", "/", "w", "w", "w", ".",
               "a", "v", "i", "t", "o", ".", "r", "u">>
StrListing == <<"l", "i", "s", "t", "i", "n", "g", "_">>
StrListingTitle == <<"l", "i", "s", "t", "i", "n", "g", "_", "t", "i", "t", "l", "e", "_">>
StrNoPrice == <<"P", "r", "i", "c", "e", " ", "n", "o", "t", " ",
                "s", "p", "e", "c", "i", "f", "i", "e", "d">>

(***************************************************************************)
(* Field extraction: AvitoParser.parseListingElement.                      *)
(*                                                                         *)
(* An element is described by what the renderer answers for it:            *)
(*   titles[i], prices[i] : the answer of the i-th selector, one of        *)
(*       [kind |-> "nomatch"]           Element(selector) fails or is nil  *)
(*       [kind |-> "texterr"]           Text() fails (returns "", err)     *)
(*       [kind |-> "text", text |-> t]  Text() returns t                   *)
(*   link : the answer of Element("a[href]") and Attribute("href"), one of *)
(*       [kind |-> "nomatch"], [kind |-> "attrerr"], [kind |-> "nilattr"], *)
(*       [kind |-> "href", href |-> h]                                     *)
(***************************************************************************)
NumTitleSelectors == 6
NumPriceSelectors == 5

NoMatch == [kind |-> "nomatch"]
TextErr == [kind |-> "texterr"]
Text(t) == [kind |-> "text", text |-> t]
Href(h) == [kind |-> "href", href |-> h]

\* the string Text() hands back together with its error value
TextOf(r) == IF r.kind = "text" THEN r.text ELSE <<>>

\* the title selector loop; title is assigned by every Text() call and the
\* loop breaks at the first non-blank text
RECURSIVE TitleLoop(_, _, _)
TitleLoop(results, i, title) ==
    IF i > Len(results) THEN title
    ELSE IF results[i].kind = "nomatch" THEN TitleLoop(results, i + 1, title)
    ELSE IF results[i].kind = "text" /\ TrimSpace(results[i].text) # <<>>
         THEN TrimSpace(results[i].text)
         ELSE TitleLoop(results, i + 1, TextOf(results[i]))

\* the price selector loop; priceText is local to the iteration
RECURSIVE PriceLoop(_, _, _)
PriceLoop(results, i, price) ==
    IF i > Len(results) THEN price
    ELSE IF results[i].kind = "text" /\ TrimSpace(results[i].text) # <<>>
         THEN TrimSpace(results[i].text)
         ELSE PriceLoop(results, i + 1, price)

\* the URL of the first anchor carrying an href
ItemURL(link) ==
    IF link.kind = "href" /\ link.href # <<>>
    THEN IF ~HasPrefix(link.href, StrHttp) THEN StrOrigin \o link.href ELSE link.href
    ELSE <<>>

\* mutant of ListingID: the URL enters the id as it is
ListingIDRaw(itemURL, title, now) ==
    IF itemURL # <<>> THEN StrListing \o itemURL
    ELSE StrListingTitle \o Itoa(Len(title))

\* the id of a listing; the time-based id is assigned first and then
\* overwritten on both branches
ListingID(itemURL, title, now) ==
    LET id0 == StrListing \o Itoa(now)
    IN  IF itemURL # <<>>
        THEN StrListing \o ReplaceAll(itemURL, "/", "_")
        ELSE StrListingTitle \o Itoa(Len(title))

\* parseListingElement(element) called at time now: a Listing, or the error
parseListingElement(element, now) ==
    IF element = None THEN [kind |-> "error", err |-> "element is nil"]
    ELSE LET title == TitleLoop(element.titles, 1, <<>>)
             price == PriceLoop(element.prices, 1, StrNoPrice)
             itemURL == ItemURL(element.link)
         IN  IF title = <<>>
             THEN [kind |-> "error", err |-> "title not found or empty"]
             ELSE [kind |-> "listing",
                   ID |-> ListingID(itemURL, title, now),
                   Title |-> title,
                   Price |-> price,
                   URL |-> itemURL,
                   CreatedAt |-> now]


(***************************************************************************)
(* Page validity: AvitoParser.hasListings, and the element enumeration of  *)
(* AvitoParser.ParseListings.                                              *)
(*                                                                         *)
(* The renderer's answer to page.Elements(selector) is                     *)
(*   [err |-> TRUE,  elems |-> <<>>]   the query fails (nil, err)          *)
(*   [err |-> FALSE, elems |-> es]     es a sequence of elements, None     *)
(*                                     standing for a nil element          *)
(***************************************************************************)
NumListingSelectors == 3
MinListings == 3

QueryErr == [err |-> TRUE, elems |-> <<>>]
Found(es) == [err |-> FALSE, elems |-> es]

\* for _, selector := range selectors { ...; if err == nil && len > 0 { break } }
RECURSIVE SelectorLoop(_, _, _)
SelectorLoop(results, i, cur) ==
    IF i > Len(results) THEN cur
    ELSE IF ~results[i].err /\ Len(results[i].elems) > 0 THEN results[i]
    ELSE SelectorLoop(results, i + 1, results[i])

\* validCount: the number of non-nil elements
RECURSIVE ValidCount(_)
ValidCount(es) ==
    IF es = <<>> THEN 0
    ELSE (IF Head(es) # None THEN 1 ELSE 0) + ValidCount(Tail(es))

\* mutant of IsValidPage: the threshold is exclusive
IsValidPageStrict(count) == count > MinListings

\* the threshold of hasListings
IsValidPage(count) == count >= MinListings

\* what hasListings returns once the page is loaded, given the answers of
\* the three selectors
hasListingsLoaded(results) ==
    LET found == SelectorLoop(results, 1, Found(<<>>))
    IN  IF found.err
        THEN [valid |-> FALSE, count |-> 0, err |-> FALSE]
        ELSE [valid |-> IsValidPage(ValidCount(found.elems)),
              count |-> ValidCount(found.elems), err |-> FALSE]

\* what hasListings returns when browser.Page or WaitLoad fails
CallFailed == [valid |-> FALSE, count |-> 0, err |-> TRUE]

\* mutant of ExtractAll: one nil element or failed extraction empties the
\* result of the page
ExtractAllOrNothing(es, now) ==
    IF \E i \in 1..Len(es) :
          es[i] = None \/ parseListingElement(es[i], now).kind # "listing"
    THEN <<>>
    ELSE [i \in 1..Len(es) |-> parseListingElement(es[i], now)]

\* the element loop of ParseListings: nil elements and failed extractions
\* are skipped
RECURSIVE ExtractAll(_, _)
ExtractAll(es, now) ==
    IF es = <<>> THEN <<>>
    ELSE LET l == IF Head(es) = None THEN None
                  ELSE parseListingElement(Head(es), now)
         IN  (IF l # None /\ l.kind = "listing" THEN <<l>> ELSE <<>>)
                 \o ExtractAll(Tail(es), now)

\* mutant of ParseListingsLoaded: a page without listing elements is a failure
ParseListingsLoadedStrict(results, now) ==
    LET found == SelectorLoop(results, 1, Found(<<>>))
    IN  IF found.err \/ Len(found.elems) = 0
        THEN [listings |-> <<>>, err |-> TRUE]
        ELSE [listings |-> ExtractAll(found.elems, now), err |-> FALSE]

\* what ParseListings returns once the page is loaded
ParseListingsLoaded(results, now) ==
    LET found == SelectorLoop(results, 1, Found(<<>>))
    IN  IF found.err \/ Len(found.elems) = 0
        THEN [listings |-> <<>>, err |-> FALSE]
        ELSE [listings |-> ExtractAll(found.elems, now), err |-> FALSE]

FetchFailed == [listings |-> <<>>, err |-> TRUE]

(***************************************************************************)
(* The key-value store (database.RedisClient) and AvitoParser.SaveListing. *)
(* The store is a function from the keys present to their values.          *)
(***************************************************************************)
EmptyStore == [k \in {} |-> None]

\* mutant of StoreExists: the existence check never finds the key
StoreExistsNever(st, key) == FALSE

\* RedisClient.Exists
StoreExists(st, key) == key \in DOMAIN st

\* RedisClient.Set
StoreSet(st, key, val) ==
    [k \in (DOMAIN st) \cup {key} |-> IF k = key THEN val ELSE st[k]]

\* expiry of a key after its 24 hour time to live
StoreExpire(st, key) == [k \in (DOMAIN st) \ {key} |-> st[k]]

\* Listing.ToJSON: the persisted record
ToJSON(l) == [id |-> l.ID, title |-> l.Title, price |-> l.Price, url |-> l.URL,
              created_at |-> l.CreatedAt]

\* mutant of SaveListingCheck: the existence check is missing
SaveListingCheckNoExists(l, st, existsOK) ==
    IF l = None THEN "listing is nil"
    ELSE IF l.ID = <<>> THEN "listing ID is empty"
    ELSE "write"

\* mutant of SaveListingCheck: the test of the empty ID is missing
SaveListingCheckNoIdTest(l, st, existsOK) ==
    IF l = None THEN "listing is nil"
    ELSE IF ~existsOK THEN "failed to check if listing exists"
    ELSE IF StoreExists(st, l.ID) THEN "listing already exists"
    ELSE "write"

\* SaveListing up to and including the existence check: the error returned,
\* or "write" when the call goes on to the write
SaveListingCheck(l, st, existsOK) ==
    IF l = None THEN "listing is nil"
    ELSE IF l.ID = <<>> THEN "listing ID is empty"
    ELSE IF ~existsOK THEN "failed to check if listing exists"
    ELSE IF StoreExists(st, l.ID) THEN "listing already exists"
    ELSE "write"

\* SaveListing from ToJSON on: the store after the call and the result
SaveListingWrite(l, st, setOK) ==
    IF setOK THEN [store |-> StoreSet(st, l.ID, ToJSON(l)), result |-> "nil"]
    ELSE [store |-> st, result |-> "failed to save listing to Redis"]


(***************************************************************************)
(* State.                                                                  *)
(***************************************************************************)
VARIABLES
    pc,                 \* position of the parsing goroutine
    currentPage,        \* ParseAllPages: currentPage
    totalPages,         \* ParseAllPages: totalPages
    totalNewListings,   \* ParseAllPages: totalNewListings
    retry,              \* ParseAllPages: retry of the running retry loop
    tries,              \* history: calls made by the retry loops for the current page step
    hasL,               \* ParseAllPages: hasListings
    listingCount,       \* ParseAllPages: listingCount
    err,                \* ParseAllPages: err # nil
    listings,           \* ParseAllPages: listings
    idx,                \* ParseAllPages: position of the save loop in listings
    newListingsCount,   \* ParseAllPages: newListingsCount
    handles,            \* the page handles that are open, by the function that opened them
    store,              \* the key-value store
    exited,             \* main has returned after a shutdown signal
    endReason,          \* history: how the last cycle left the page loop
    skipped,            \* history: a page of this cycle was skipped after exhausted retries
    consecFails,        \* history: consecutive pages whose validity check was exhausted
    tally,              \* history: valid pages fetched, Saved results and store writes of this cycle
    clock,              \* the wall clock read by time.Now()
    work,               \* SpecExtract: the elements still to be extracted
    last,               \* SpecExtract: the latest extraction (element, time, outcome)
    prev,               \* SpecExtract: the extraction before it
    drv,                \* SpecSave: the SaveListing call in progress
    log,                \* SpecSave, SpecRace: history of the store events and finished calls
    pageIn,             \* SpecPage: what the selector candidates return on the loaded page
    verdict,            \* SpecPage: what hasListings returned for pageIn
    fetchRes,           \* SpecPage: what ParseListings returned for pageIn
    procs               \* SpecRace: the SaveListing call in progress of every worker

iterVars == <<retry, tries, hasL, listingCount, err, listings, idx, newListingsCount>>
cycleVars == <<pc, currentPage, totalPages, totalNewListings, iterVars, handles, exited,
               endReason, skipped, consecFails, tally>>
extractVars == <<clock, work, last, prev>>
saveVars == <<drv, log>>
pageVars == <<pageIn, verdict, fetchRes>>
raceVars == <<procs>>
vars == <<cycleVars, store, extractVars, saveVars, pageVars, raceVars>>

(***************************************************************************)
(* Program constants of ParseAllPages and bounds of the cycle model.       *)
(***************************************************************************)
MaxRetries == 3
MaxPages == 50
CheckFailLimit == 10

\* page numbers from PageCap on are represented by PageCap: the code compares
\* the page number with 1, CheckFailLimit and MaxPages only
PageCap == 52
\* listing elements per fetched page in Spec
MaxListings == 2

\* mutant of NextPage: a page number is passed over
NextPageSkipping(n) == IF n + 1 < PageCap THEN n + 2 ELSE PageCap

\* mutant of RetryAgain: the retry loops run one more time
RetryAgainOnceMore(r) == r <= MaxRetries

\* the condition of both retry loops: retry < maxRetries
RetryAgain(r) == r < MaxRetries

\* currentPage++
NextPage(n) == IF n < PageCap THEN n + 1 ELSE PageCap

\* if currentPage > 10 { break }   (after a skipped validity check)
CheckFailLimitReached(n) == n > CheckFailLimit

\* mutant of PageLimitReached: the limit test is missing
PageLimitReachedNever(n) == FALSE

\* mutant of PageLimitReached: the limit test is off by one
PageLimitReachedLate(n) == n > MaxPages + 1

\* if currentPage > 50 { break }   (after a processed page)
PageLimitReached(n) == n > MaxPages

\* the path that skips a page after its fetch retries has no limit test
FetchSkipLimitReached(n) == FALSE

(***************************************************************************)
(* Renderer answers used by the cycle.                                     *)
(***************************************************************************)
OnlyFirst(r, n) == [i \in 1..n |-> IF i = 1 THEN r ELSE NoMatch]

\* title "a", price "1", one anchor with href "/a"
ElemA == [titles |-> OnlyFirst(Text(<<"a">>), NumTitleSelectors),
          prices |-> OnlyFirst(Text(<<"1">>), NumPriceSelectors),
          link |-> Href(<<"/", "a">>)]
\* no title at all
ElemBad == [titles |-> OnlyFirst(NoMatch, NumTitleSelectors),
            prices |-> OnlyFirst(NoMatch, NumPriceSelectors),
            link |-> Href(<<"/", "c">>)]

CheckAnswers == {QueryErr, Found(<<>>), Found(<<ElemA, ElemA>>),
                 Found(<<ElemA, None, ElemA>>), Found(<<ElemA, ElemA, ElemBad>>)}
CheckPages == {<<a, Found(<<>>), Found(<<>>)>> : a \in CheckAnswers}
                 \cup {<<QueryErr, a, Found(<<>>)>> : a \in CheckAnswers}
                 \cup {<<Found(<<>>), Found(<<>>), a>> : a \in CheckAnswers}

RECURSIVE SeqsUpTo(_, _)
SeqsUpTo(S, n) ==
    IF n = 0 THEN {<<>>}
    ELSE SeqsUpTo(S, n - 1) \cup
         {Append(q, x) : q \in {r \in SeqsUpTo(S, n - 1) : Len(r) = n - 1}, x \in S}

FetchAnswers == {QueryErr} \cup {Found(es) : es \in SeqsUpTo({ElemA, ElemBad, None}, MaxListings)}
FetchPages == {<<a, Found(<<>>), Found(<<>>)>> : a \in FetchAnswers}
                 \cup {<<QueryErr, Found(<<>>), a>> : a \in FetchAnswers}

(***************************************************************************)
(* StartContinuousParsing and ParseAllPages.                               *)
(* pc: "start"    top of the for loop of StartContinuousParsing            *)
(*     "check"    ParseAllPages is about to call hasListings               *)
(*     "checking" inside hasListings, page handle open                     *)
(*     "checked"  after the retry loop of the validity check               *)
(*     "fetch"    about to call ParseListings                              *)
(*     "fetching" inside ParseListings, page handle open                   *)
(*     "fetched"  after the retry loop of the fetch                        *)
(*     "save"     in the save loop, before listings[idx]                   *)
(*     "saving"   inside SaveListing, between Exists and Set               *)
(*     "end"      after the page loop, before ParseAllPages returns        *)
(*     "sleep"    in time.Sleep(p.cycleDelay)                              *)
(* The variables a loop iteration declares hold their zero values outside  *)
(* the iteration, and those of ParseAllPages hold their initial values     *)
(* outside the call.                                                       *)
(***************************************************************************)
InCycle == ~exited /\ pc \in {"check", "checking", "checked", "fetch", "fetching",
                               "fetched", "save", "saving", "end"}

\* the variables declared by one iteration of the page loop
NewIteration ==
    /\ retry' = 0 /\ tries' = 0 /\ hasL' = FALSE /\ listingCount' = 0 /\ err' = FALSE
    /\ listings' = <<>> /\ idx' = 0 /\ newListingsCount' = 0

\* history of a cycle: nothing fetched, saved or written yet
NoTally == [fetched |-> 0, saved |-> 0, sets |-> 0]

\* the variables of ParseAllPages outside a call
NoCall ==
    /\ currentPage' = 1 /\ totalPages' = 0 /\ totalNewListings' = 0
    /\ skipped' = FALSE /\ consecFails' = 0 /\ tally' = NoTally
    /\ NewIteration

\* a cycle starts: the locals of ParseAllPages
BeginCycle ==
    /\ ~exited /\ pc = "start"
    /\ pc' = "check"
    /\ totalNewListings' = 0 /\ totalPages' = 0 /\ currentPage' = 1
    /\ NewIteration
    /\ endReason' = "none" /\ skipped' = FALSE /\ consecFails' = 0
    /\ tally' = NoTally
    /\ UNCHANGED <<handles, exited, store, extractVars, saveVars, pageVars, raceVars>>

\* mutant of ClosePage: the handle is left open
ClosePageNever(h, who) == h

\* defer func() { page.Close() }(): the handle the call opened is closed when
\* the call returns
ClosePage(h, who) == h \ {who}

\* hasListings has returned r inside the retry loop of the validity check
CheckReturn(r) ==
    /\ hasL' = r.valid /\ listingCount' = r.count /\ err' = r.err
    /\ IF ~r.err
       THEN pc' = "checked" /\ retry' = retry
       ELSE /\ retry' = retry + 1
            /\ pc' = IF RetryAgain(retry + 1) THEN "check" ELSE "checked"

\* hasListings: browser.Page
HasListingsOpen ==
    /\ ~exited /\ pc = "check"
    /\ tries' = tries + 1
    /\ \E ok \in BOOLEAN :
          IF ok
          THEN /\ handles' = handles \cup {"hasListings"}
               /\ pc' = "checking"
               /\ UNCHANGED <<hasL, listingCount, err, retry>>
          ELSE /\ CheckReturn(CallFailed)
               /\ UNCHANGED handles
    /\ UNCHANGED <<currentPage, totalPages, totalNewListings, listings, idx,
                   newListingsCount, exited, endReason, skipped, consecFails, tally,
                   store, extractVars, saveVars, pageVars, raceVars>>

\* hasListings: WaitLoad, the selector loop, the count, and the deferred Close
HasListingsFinish ==
    /\ ~exited /\ pc = "checking"
    /\ handles' = ClosePage(handles, "hasListings")
    /\ \E loaded \in BOOLEAN :
          IF loaded
          THEN \E page \in CheckPages : CheckReturn(hasListingsLoaded(page))
          ELSE CheckReturn(CallFailed)
    /\ UNCHANGED <<tries, currentPage, totalPages, totalNewListings, listings, idx,
                   newListingsCount, exited, endReason, skipped, consecFails, tally, store, extractVars, saveVars, pageVars, raceVars>>

\* mutant of AfterCheck: an insufficient page no longer stops the page loop
AfterCheckNoStop(e, h) == IF e THEN "skip" ELSE "fetch"

\* the decision after the retry loop of the validity check:
\*   if err != nil { ...skip... }; if !hasListings { break }; ...fetch...
AfterCheck(e, h) == IF e THEN "skip" ELSE IF ~h THEN "stop" ELSE "fetch"

\* after the retry loop of the validity check: skip the page, end the cycle,
\* or go on to the fetch
CheckDone ==
    /\ ~exited /\ pc = "checked"
    /\ IF AfterCheck(err, hasL) = "skip"
       THEN /\ currentPage' = NextPage(currentPage)
            /\ skipped' = TRUE
            /\ consecFails' = consecFails + 1
            /\ IF CheckFailLimitReached(currentPage')
               THEN pc' = "end" /\ endReason' = "checkfail"
               ELSE pc' = "check" /\ endReason' = endReason
            /\ NewIteration
       ELSE IF AfterCheck(err, hasL) = "stop"
       THEN /\ pc' = "end" /\ endReason' = "insufficient"
            /\ consecFails' = 0
            /\ NewIteration
            /\ UNCHANGED <<currentPage, skipped>>
       ELSE /\ pc' = "fetch" /\ retry' = 0 /\ tries' = 0
            /\ consecFails' = 0
            /\ UNCHANGED <<currentPage, skipped, endReason, hasL, listingCount, err,
                           listings, idx, newListingsCount>>
    /\ UNCHANGED <<totalPages, totalNewListings, handles, exited, tally, store,
                   extractVars, saveVars, pageVars, raceVars>>

\* ParseListings has returned r inside the retry loop of the fetch
FetchReturn(r) ==
    /\ listings' = r.listings /\ err' = r.err
    /\ IF ~r.err
       THEN pc' = "fetched" /\ retry' = retry
       ELSE /\ retry' = retry + 1
            /\ pc' = IF RetryAgain(retry + 1) THEN "fetch" ELSE "fetched"

\* ParseListings: browser.Page
ParseListingsOpen ==
    /\ ~exited /\ pc = "fetch"
    /\ tries' = tries + 1
    /\ \E ok \in BOOLEAN :
          IF ok
          THEN /\ handles' = handles \cup {"ParseListings"}
               /\ pc' = "fetching"
               /\ UNCHANGED <<listings, err, retry>>
          ELSE /\ FetchReturn(FetchFailed)
               /\ UNCHANGED handles
    /\ UNCHANGED <<currentPage, totalPages, totalNewListings, hasL, listingCount, idx,
                   newListingsCount, exited, endReason, skipped, consecFails, tally,
                   store, extractVars, saveVars, pageVars, raceVars>>

\* ParseListings: WaitLoad, the selector loop, the element loop, and the
\* deferred Close
ParseListingsFinish ==
    /\ ~exited /\ pc = "fetching"
    /\ handles' = ClosePage(handles, "ParseListings")
    /\ \E loaded \in BOOLEAN :
          IF loaded
          THEN \E page \in FetchPages : FetchReturn(ParseListingsLoaded(page, clock))
          ELSE FetchReturn(FetchFailed)
    /\ UNCHANGED <<tries, currentPage, totalPages, totalNewListings, hasL, listingCount, idx,
                   newListingsCount, exited, endReason, skipped, consecFails, tally, store, extractVars, saveVars, pageVars, raceVars>>

\* after the retry loop of the fetch: skip the page or enter the save loop
FetchDone ==
    /\ ~exited /\ pc = "fetched"
    /\ IF err
       THEN /\ currentPage' = NextPage(currentPage)
            /\ skipped' = TRUE
            /\ IF FetchSkipLimitReached(currentPage')
               THEN pc' = "end" /\ endReason' = "ceiling"
               ELSE pc' = "check" /\ endReason' = endReason
            /\ NewIteration
            /\ UNCHANGED tally
       ELSE /\ pc' = "save" /\ idx' = 1 /\ newListingsCount' = 0
            /\ tally' = [tally EXCEPT !.fetched = @ + 1]
            /\ UNCHANGED <<currentPage, skipped, retry, tries, endReason, hasL,
                           listingCount, err, listings>>
    /\ UNCHANGED <<totalPages, totalNewListings, handles, exited, consecFails,
                   store, extractVars, saveVars, pageVars, raceVars>>

\* mutant of NextListing: a persist failure ends the save loop of the page
NextListingUnlessFailed(i, n, result) ==
    IF result \in {"failed to check if listing exists", "failed to save listing to Redis"}
    THEN n + 1 ELSE i + 1

\* for _, listing := range listings: the loop goes on to the next listing
\* whatever SaveListing returned for listing i of n
NextListing(i, n, result) == i + 1

\* mutant of CountsAsNew: every listing offered to SaveListing is counted
CountsAsNewAlways(result) == TRUE

\* the save loop counts a listing as new when SaveListing returned nil:
\*   if err := p.SaveListing(listing); err != nil { ... } else { newListingsCount++ }
CountsAsNew(result) == result = "nil"

\* the save loop: a nil listing is skipped; otherwise SaveListing up to its
\* existence check
SaveListingBegin ==
    /\ ~exited /\ pc = "save" /\ idx <= Len(listings)
    /\ IF listings[idx] = None
       THEN pc' = "save" /\ idx' = idx + 1 /\ UNCHANGED newListingsCount
       ELSE \E existsOK \in BOOLEAN :
               IF SaveListingCheck(listings[idx], store, existsOK) = "write"
               THEN pc' = "saving" /\ idx' = idx /\ UNCHANGED newListingsCount
               ELSE /\ pc' = "save"
                    /\ idx' = NextListing(idx, Len(listings),
                                          SaveListingCheck(listings[idx], store, existsOK))
                    /\ newListingsCount' =
                          IF CountsAsNew(SaveListingCheck(listings[idx], store, existsOK))
                          THEN newListingsCount + 1 ELSE newListingsCount
    /\ UNCHANGED <<currentPage, totalPages, totalNewListings, retry, tries, hasL, listingCount,
                   err, listings, handles, exited, endReason,
                   skipped, consecFails, tally, store, extractVars, saveVars, pageVars, raceVars>>

\* SaveListing from ToJSON on, and the count of the save loop
SaveListingEnd ==
    /\ ~exited /\ pc = "saving"
    /\ \E setOK \in BOOLEAN :
          LET w == SaveListingWrite(listings[idx], store, setOK)
          IN  /\ store' = w.store
              /\ newListingsCount' = IF CountsAsNew(w.result) THEN newListingsCount + 1
                                     ELSE newListingsCount
              /\ tally' = [tally EXCEPT !.saved = IF w.result = "nil" THEN @ + 1 ELSE @,
                                        !.sets = IF setOK THEN @ + 1 ELSE @]
              /\ idx' = NextListing(idx, Len(listings), w.result)
    /\ pc' = "save"
    /\ UNCHANGED <<currentPage, totalPages, totalNewListings, retry, tries, hasL, listingCount,
                   err, listings, handles, exited, endReason, skipped,
                   consecFails, extractVars, saveVars, pageVars, raceVars>>

\* after the save loop: the totals, the page delay, currentPage++ and the
\* page limit
PageDone ==
    /\ ~exited /\ pc = "save" /\ idx > Len(listings)
    /\ totalNewListings' = totalNewListings + newListingsCount
    /\ totalPages' = totalPages + 1
    /\ currentPage' = NextPage(currentPage)
    /\ IF PageLimitReached(currentPage')
       THEN pc' = "end" /\ endReason' = "ceiling"
       ELSE pc' = "check" /\ endReason' = endReason
    /\ NewIteration
    /\ UNCHANGED <<handles, exited, skipped, consecFails, tally, store, extractVars,
                   saveVars, pageVars, raceVars>>

\* ParseAllPages logs the totals and returns nil; the scheduler starts to sleep
CycleReturn ==
    /\ ~exited /\ pc = "end"
    /\ pc' = "sleep"
    /\ NoCall
    /\ UNCHANGED <<handles, exited, endReason, store, extractVars, saveVars, pageVars, raceVars>>

\* mutant of Panic: nothing recovers the fault and the goroutine dies
PanicUncaught ==
    /\ InCycle
    /\ pc' = "dead" /\ handles' = {} /\ endReason' = "panic"
    /\ NoCall
    /\ UNCHANGED <<exited, store, extractVars, saveVars, pageVars, raceVars>>

\* a runtime fault inside the cycle: the deferred Close runs, the fault is
\* recovered in StartContinuousParsing and the scheduler starts to sleep
Panic ==
    /\ InCycle
    /\ pc' = "sleep" /\ handles' = {} /\ endReason' = "panic"
    /\ NoCall
    /\ UNCHANGED <<exited, store, extractVars, saveVars, pageVars, raceVars>>

\* time.Sleep(p.cycleDelay) returns
Sleep ==
    /\ ~exited /\ pc = "sleep"
    /\ pc' = "start"
    /\ UNCHANGED <<currentPage, totalPages, totalNewListings, iterVars, handles, exited,
                   endReason, skipped, consecFails, tally, store, extractVars,
                   saveVars, pageVars, raceVars>>

\* a stored record reaches the end of its time to live; the cycle model lets
\* the 24 hours run out while the scheduler sleeps (SpecSave lets a record
\* expire between any two store calls)
Expire ==
    /\ ~exited /\ pc = "sleep"
    /\ \E k \in DOMAIN store : store' = StoreExpire(store, k)
    /\ UNCHANGED <<cycleVars, extractVars, saveVars, pageVars, raceVars>>

\* main: a signal arrives on sigChan and main returns; the process exits with
\* the parsing goroutine wherever it is (pc and handles keep where it was)
Shutdown ==
    /\ ~exited
    /\ exited' = TRUE
    /\ NoCall
    /\ UNCHANGED <<pc, handles, endReason, store, extractVars, saveVars, pageVars, raceVars>>

Init ==
    /\ pc = "start"
    /\ currentPage = 1 /\ totalPages = 0 /\ totalNewListings = 0
    /\ retry = 0 /\ tries = 0 /\ hasL = FALSE /\ listingCount = 0 /\ err = FALSE
    /\ listings = <<>> /\ idx = 0 /\ newListingsCount = 0
    /\ handles = {} /\ store = EmptyStore /\ exited = FALSE
    /\ endReason = "none" /\ skipped = FALSE /\ consecFails = 0 /\ tally = NoTally
    /\ clock = 0 /\ work = <<>> /\ last = None /\ prev = None
    /\ drv = None /\ log = <<>>
    /\ pageIn = None /\ verdict = None /\ fetchRes = None /\ procs = <<>>

\* the steps of the parsing goroutine
Worker ==
    \/ BeginCycle
    \/ HasListingsOpen
    \/ HasListingsFinish
    \/ CheckDone
    \/ ParseListingsOpen
    \/ ParseListingsFinish
    \/ FetchDone
    \/ SaveListingBegin
    \/ SaveListingEnd
    \/ PageDone
    \/ CycleReturn
    \/ Sleep

Next ==
    \/ Worker
    \/ Panic
    \/ Expire
    \/ Shutdown

Spec == Init /\ [][Next]_vars


\* the parsing goroutine alone, always taking its next step: every renderer
\* and store call returns, no fault occurs and no signal arrives
SpecLive == Init /\ [][Worker]_vars /\ WF_vars(Worker)

\* the scheduler with runtime faults but no shutdown signal; time.Sleep
\* returns and the for loop of StartContinuousParsing goes on to its next
\* iteration (nothing is assumed about the calls inside a cycle)
NextRecover ==
    \/ Worker
    \/ Panic

SpecRecover == Init /\ [][NextRecover]_vars /\ WF_vars(Sleep) /\ WF_vars(BeginCycle)

(***************************************************************************)
(* Properties of the pagination controller.                                *)
(***************************************************************************)
FetchPhase == ~exited /\ pc \in {"fetch", "fetching", "fetched", "save", "saving"}
AtEnd == ~exited /\ pc = "end"
PageOpen == ~exited /\ pc \in {"checking", "fetching"}

\* C2: a validity check that succeeds with fewer than 3 elements ends the
\* cycle at once: the page is never fetched (the fetch phase is entered only
\* with a valid page), the step from the check leads to the end of the page
\* loop with the page number, the counters and the store untouched and no
\* handle open, and from there the goroutine only returns; with no page
\* skipped before, the pages processed are exactly 1..n-1.
InsufficientPageEndsCycle ==
    /\ [](FetchPhase => hasL /\ listingCount >= MinListings)
    /\ [](AtEnd /\ endReason = "insufficient"
            => /\ handles = {}
               /\ totalPages <= currentPage - 1
               /\ (~skipped => totalPages = currentPage - 1))
    /\ [][(pc = "checked" /\ ~err /\ ~hasL /\ pc' # "checked" /\ ~Panic)
            => /\ pc' = "end" /\ endReason' = "insufficient"
               /\ currentPage' = currentPage /\ totalPages' = totalPages
               /\ totalNewListings' = totalNewListings
               /\ handles' = {} /\ store' = store]_vars
    /\ [][AtEnd => pc' \in {"end", "sleep"} /\ handles' = handles]_vars

\* C2 witness: page 4 is insufficient after pages 1-3 were processed
InsufficientPageReached ==
    AtEnd /\ endReason = "insufficient" /\ currentPage = 4 /\ totalPages = 3
        /\ ~skipped

\* C3: with no page skipped, the pages are processed in order, none beyond
\* page 50 is opened, and a cycle that is not ended by an insufficient page
\* ends after page 50 with pagesProcessed = 50.
AllValidSweepStopsAtFifty ==
    /\ (InCycle /\ ~skipped
          => /\ currentPage <= MaxPages + 1
             /\ totalPages = currentPage - 1)
    /\ (InCycle /\ ~skipped /\ currentPage = MaxPages + 1
          => AtEnd /\ endReason = "ceiling" /\ handles = {})
    /\ (AtEnd /\ ~skipped /\ endReason # "insufficient"
          => endReason = "ceiling" /\ totalPages = MaxPages /\ currentPage = MaxPages + 1)
    /\ (~skipped /\ PageOpen => currentPage <= MaxPages)

\* C3 witness: the sweep over fifty valid pages has ended
FiftyPagesProcessed ==
    AtEnd /\ endReason = "ceiling" /\ ~skipped /\ totalPages = MaxPages

\* C4: the page number handed to the Validator or the Fetcher never exceeds 50.
PageNeverAboveCeiling ==
    PageOpen => currentPage <= MaxPages

\* C5: every cycle terminates: whenever ParseAllPages is running, it
\* eventually returns.
CycleTerminates == InCycle ~> ~InCycle

\* C6: when the validity check of page n has failed on all attempts, the
\* controller goes on with page n+1 in the same cycle.
CheckExhaustionAdvances ==
    [][(CheckDone /\ err) => (pc' = "check" /\ currentPage' = currentPage + 1)]_vars

\* C7: the cycle is stopped on the check-failure path exactly when 10
\* consecutive pages have exhausted their validity-check retries.
ConsecutiveFailureCeiling ==
    /\ (AtEnd /\ endReason = "checkfail" => consecFails = CheckFailLimit)
    /\ (InCycle /\ consecFails >= CheckFailLimit => AtEnd /\ endReason = "checkfail")

\* C10: the process exits only between cycles or between page iterations:
\* at exit no page handle is open and no listing is between its existence
\* check and its write.
GracefulExit ==
    exited => handles = {} /\ pc \notin {"checking", "fetching", "saving"}

\* C22: for every page the validity check is called at least once and at
\* most 3 times and the fetch at most 3 times; a retry loop calls again only
\* after a failed call and gives up only after 3 failed calls; and the fetch
\* is reached only with a check that succeeded with valid = true.
BoundedRetries ==
    /\ InCycle /\ pc \in {"check", "checking", "checked"} => tries <= 3
    /\ FetchPhase => tries <= 3 /\ hasL
    /\ InCycle /\ pc \in {"checked", "fetched"} => tries >= 1 /\ (err => tries = 3)
    /\ InCycle /\ pc \in {"check", "fetch"} /\ tries >= 1 => err
    /\ InCycle /\ pc \in {"save", "saving"} => tries >= 1 /\ ~err

\* C22 witness: after a valid check the fetch failed once and succeeded at
\* its second call
FetchSucceededAtSecondCall ==
    /\ ~exited /\ pc = "fetched" /\ ~err /\ tries = 2 /\ hasL /\ listingCount >= 3
    /\ consecFails = 0

\* the loaded pages on which no selector candidate returns an element
NoElementAnswers ==
    {<<a, b, c>> : a \in {QueryErr, Found(<<>>)}, b \in {QueryErr, Found(<<>>)},
                   c \in {QueryErr, Found(<<>>)}}

\* C23: when the page ParseListings has loaded holds no listing element for
\* any candidate (each returns nothing or fails), ParseListings returns the
\* empty sequence and no error; and when the fetch of a
\* valid page returned the empty sequence the page is counted in totalPages,
\* nothing is added to totalNewListings, and the controller goes on to the
\* next page number (which it checks unless the page limit ends the cycle).
EmptyPageIsNoFailure ==
    /\ [](PageOpen /\ pc = "fetching" =>
             \A a \in NoElementAnswers :
                ParseListingsLoaded(a, clock) = [listings |-> <<>>, err |-> FALSE])
    /\ [][InCycle /\ pc = "save" /\ listings = <<>> /\ InCycle' =>
              /\ totalPages' = totalPages + 1
              /\ totalNewListings' = totalNewListings
              /\ currentPage' = currentPage + 1 \/ currentPage = PageCap
              /\ pc' = "check" \/ (pc' = "end" /\ currentPage' > 50)]_vars

\* C23 witness: a page was valid and its fetch returned the empty sequence
ValidPageFetchedEmpty ==
    ~exited /\ pc = "save" /\ listings = <<>> /\ hasL /\ ~err

\* C24: the save loop starts at the first listing of the fetch result, which
\* it leaves unchanged; each listing is offered to SaveListing and, whatever
\* the call returns, the loop goes on to the listing after it; the page is
\* left only after the last listing, and then the page number advances.
PersistFailuresDoNotStop ==
    /\ [][InCycle /\ pc = "fetched" /\ pc' = "save" => idx' = 1 /\ listings' = listings]_vars
    /\ [][InCycle /\ pc \in {"save", "saving"} /\ InCycle' =>
              /\ pc' \in {"save", "saving"} =>
                    listings' = listings /\ currentPage' = currentPage
              /\ pc = "save" /\ idx <= Len(listings) =>
                    \/ pc' = "saving" /\ idx' = idx
                    \/ pc' = "save" /\ idx' = idx + 1
              /\ pc = "saving" => pc' = "save" /\ idx' = idx + 1
              /\ pc = "save" /\ idx > Len(listings) =>
                    /\ pc' \in {"check", "end"}
                    /\ currentPage' = currentPage + 1 \/ currentPage = PageCap]_vars

\* C24 witness: the first of two listings was neither saved nor found in the
\* store, and the save loop is at the second
SecondListingAfterPersistFailure ==
    /\ ~exited /\ pc = "save" /\ idx = 2 /\ Len(listings) = 2
    /\ newListingsCount = 0 /\ tally.sets = 0 /\ store = EmptyStore

\* C25: totalPages never exceeds 50 in a cycle, and once it is 50 the page
\* loop has ended.
PagesProcessedBounded ==
    /\ totalPages <= 50
    /\ InCycle /\ totalPages = 50 => pc = "end"

\* C25 witness: 50 pages were processed in a cycle that skipped a page and
\* so went past page number 51
FiftyProcessedWithSkip ==
    AtEnd /\ totalPages = 50 /\ skipped /\ currentPage > 51

\* C11: whenever a cycle ends, by the return of ParseAllPages or by a runtime
\* fault inside it, the scheduler is left sleeping the inter-cycle delay, and
\* absent a shutdown the sleep is always followed by the start of a new cycle.
CrashIsolation ==
    /\ [][InCycle /\ ~InCycle' => pc' = "sleep" /\ ~exited']_vars
    /\ (pc = "sleep") ~> (pc = "check")

FaultRecovered == pc = "sleep" /\ endReason = "panic"

\* C12: a cycle starts only from the top of the scheduler loop, which is
\* reached only from the inter-cycle sleep; within a cycle the page number
\* starts at 1 and changes only by +1, and only after the validity check or
\* the fetch of the page was given up or every listing of the page has been
\* offered to SaveListing.
SequentialWorker ==
    /\ [][~InCycle /\ InCycle' => pc = "start" /\ pc' = "check" /\ currentPage' = 1]_vars
    /\ [][pc' = "start" /\ pc # "start" => pc = "sleep"]_vars
    /\ [][InCycle /\ InCycle' /\ currentPage' # currentPage =>
              /\ currentPage' = currentPage + 1
              /\ \/ pc = "checked" /\ err
                 \/ pc = "fetched" /\ err
                 \/ pc = "save" /\ idx > Len(listings)]_vars
    /\ [][InCycle /\ pc' = "checking" /\ pc # "checking" =>
              pc = "check" /\ currentPage' = currentPage]_vars

SecondPageAfterFirstSaved ==
    /\ ~exited /\ pc = "checking" /\ currentPage = 2
    /\ totalPages = 1 /\ totalNewListings = 1

\* C13: a page handle is open only inside the call that opened it, so at most
\* one handle is open at any time and none between page operations.
HandlesReleased ==
    /\ Cardinality(handles) <= 1
    /\ (handles # {} => pc \in {"checking", "fetching"})
    /\ (pc = "checking" => handles = {"hasListings"})
    /\ (pc = "fetching" => handles = {"ParseListings"})

FetchReturnedHandleClosed ==
    ~exited /\ pc = "save" /\ Len(listings) > 0 /\ handles = {}

\* C14: within a cycle the counters never exceed what the cycle has done so
\* far (so both are 0 when it starts), and when the page loop has ended
\* totalPages is the number of valid pages whose fetch succeeded and
\* totalNewListings is the number of SaveListing calls that returned nil,
\* which is the number of store writes of the cycle.
CycleStatisticsExact ==
    /\ (InCycle => totalPages <= tally.fetched /\ totalNewListings <= tally.saved)
    /\ (InCycle /\ pc = "check" /\ currentPage = 1 /\ ~skipped =>
            totalPages = 0 /\ totalNewListings = 0)
    /\ (AtEnd => /\ totalPages = tally.fetched
                 /\ totalNewListings = tally.saved
                 /\ tally.saved = tally.sets)

CycleEndedWithSavesAndSkips ==
    AtEnd /\ totalPages >= 2 /\ totalNewListings = 1 /\ skipped


(***************************************************************************)
(* SpecExtract: parseListingElement applied to bounded sets of elements.   *)
(* A behaviour extracts one element of Elements, or two of SmallElems one  *)
(* after the other, while the clock advances.                              *)
(***************************************************************************)
AttrErr == [kind |-> "attrerr"]
NilAttr == [kind |-> "nilattr"]

TitleAnswers == {TextErr, Text(<<>>), Text(<<" ">>), Text(<<"a">>), Text(<<" ", "b">>)}
TitleRuns == {t \in [1..NumTitleSelectors -> {NoMatch} \cup TitleAnswers] :
                Cardinality({i \in 1..NumTitleSelectors : t[i] # NoMatch}) <= MaxMatching}
PriceRuns == {OnlyFirst(NoMatch, NumPriceSelectors),
              [i \in 1..NumPriceSelectors |-> IF i = 2 THEN Text(<<" ", "1">>) ELSE TextErr]}
Links == {NoMatch, AttrErr, NilAttr, Href(<<>>),
          Href(<<"/", "a">>), Href(<<"/", "a", "/", "b">>), Href(<<"/", "a", "_", "b">>),
          Href(<<"h", "t", "t", "p", "s", ":", "/", "/", "x">>),
          Href(<<"h", "t", "t", "p", "a">>)}
Elements == {[titles |-> t, prices |-> p, link |-> l] :
                t \in TitleRuns, p \in PriceRuns, l \in Links}
SmallElems == {[titles |-> OnlyFirst(a, NumTitleSelectors),
                prices |-> OnlyFirst(NoMatch, NumPriceSelectors),
                link |-> l] :
                  a \in {Text(<<"a">>), Text(<<" ", "b">>)},
                  l \in {NoMatch, Href(<<"/", "a">>), Href(<<"/", "a", "/", "b">>),
                         Href(<<"/", "a", "_", "b">>)}}

InitExtract ==
    /\ pc = "extract"
    /\ currentPage = 1 /\ totalPages = 0 /\ totalNewListings = 0
    /\ retry = 0 /\ tries = 0 /\ hasL = FALSE /\ listingCount = 0 /\ err = FALSE
    /\ listings = <<>> /\ idx = 0 /\ newListingsCount = 0
    /\ handles = {} /\ store = EmptyStore /\ exited = FALSE
    /\ endReason = "none" /\ skipped = FALSE /\ consecFails = 0 /\ tally = NoTally
    /\ clock = 0 /\ last = None /\ prev = None
    /\ work \in {<<e>> : e \in Elements \cup {None}}
                  \cup {<<e1, e2>> : e1 \in SmallElems, e2 \in SmallElems}
    /\ drv = None /\ log = <<>>
    /\ pageIn = None /\ verdict = None /\ fetchRes = None /\ procs = <<>>

\* one call of parseListingElement on the next element, at the current time
ExtractElement ==
    /\ pc = "extract" /\ work # <<>>
    /\ last' = [kind |-> "extraction", elem |-> Head(work), at |-> clock,
                out |-> parseListingElement(Head(work), clock)]
    /\ prev' = last
    /\ work' = Tail(work)
    /\ UNCHANGED <<cycleVars, store, clock, saveVars, pageVars, raceVars>>

\* time passes
Tick ==
    /\ pc = "extract" /\ clock < MaxClock
    /\ clock' = clock + 1
    /\ UNCHANGED <<cycleVars, store, work, last, prev, saveVars, pageVars, raceVars>>

NextExtract ==
    \/ ExtractElement
    \/ Tick

SpecExtract == InitExtract /\ [][NextExtract]_vars

\* the title selectors of element e that yield a non-blank text
NonBlankTitles(e) ==
    {i \in 1..NumTitleSelectors :
        e.titles[i].kind = "text" /\ TrimSpace(e.titles[i].text) # <<>>}

\* C8: a Listing is returned only if some title selector yielded non-blank
\* text, its title is that text trimmed, and when no selector yields
\* non-blank text the extraction fails.
NoListingWithoutTitle ==
    (last # None /\ last.elem # None)
        => /\ last.out.kind = "listing"
                => /\ \E i \in NonBlankTitles(last.elem) :
                          last.out.Title = TrimSpace(last.elem.titles[i].text)
                   /\ last.out.Title # <<>>
                   /\ TrimSpace(last.out.Title) = last.out.Title
           /\ NonBlankTitles(last.elem) = {} => last.out.kind = "error"

\* C9: two listings without URL that are extracted at different times get
\* different ids.
FallbackIdsDiffer ==
    (/\ last # None /\ prev # None
     /\ last.out.kind = "listing" /\ prev.out.kind = "listing"
     /\ last.out.URL = <<>> /\ prev.out.URL = <<>>
     /\ last.at # prev.at)
        => last.out.ID # prev.out.ID

\* C26: two Listings with different non-empty URLs have different ids.
DistinctUrlsDistinctIds ==
    (/\ last # None /\ prev # None
     /\ last.out.kind = "listing" /\ prev.out.kind = "listing"
     /\ last.out.URL # <<>> /\ prev.out.URL # <<>>
     /\ last.out.URL # prev.out.URL)
        => last.out.ID # prev.out.ID

\* an href that starts with the scheme of an absolute web address
StrHttpScheme == StrHttp \o <<":", "/", "/">>
StrHttpsScheme == StrHttp \o <<"s", ":", "/", "/">>
StartsWithScheme(h) == HasPrefix(h, StrHttpScheme) \/ HasPrefix(h, StrHttpsScheme)

\* the latest extraction returned a Listing of an element whose first anchor
\* carries a non-empty href
ListingWithHref ==
    /\ last # None /\ last.elem # None /\ last.out.kind = "listing"
    /\ last.elem.link.kind = "href" /\ last.elem.link.href # <<>>

\* C16: the url of a Listing is the href of the element's first anchor when
\* the href starts with a URL scheme, and the site origin followed by the
\* href for every other non-empty href.
RelativeLinksBecomeAbsolute ==
    ListingWithHref =>
        last.out.URL = IF StartsWithScheme(last.elem.link.href)
                       THEN last.elem.link.href
                       ELSE StrOrigin \o last.elem.link.href

\* C17: every Listing has a non-empty id; when it has a URL the id is
\* "listing_" followed by the URL with every "/" replaced by "_"; and
\* SaveListing rejects no Listing as nil or without id.
IdentityInvariant ==
    (last # None /\ last.out.kind = "listing") =>
        LET id == last.out.ID
            url == last.out.URL
        IN  /\ id # <<>>
            /\ url # <<>> =>
                  /\ Len(id) = Len(StrListing) + Len(url)
                  /\ SubSeq(id, 1, Len(StrListing)) = StrListing
                  /\ \A i \in 1..Len(url) :
                         id[Len(StrListing) + i] = IF url[i] = "/" THEN "_" ELSE url[i]
            /\ \A st \in {EmptyStore, StoreSet(EmptyStore, id, ToJSON(last.out))} :
                  \A existsOK \in BOOLEAN :
                     SaveListingCheck(last.out, st, existsOK)
                         \notin {"listing is nil", "listing ID is empty"}

\* C17 witness: a Listing whose href holds two "/"
ListingWithNestedPath ==
    /\ ListingWithHref
    /\ last.elem.link.href = <<"/", "a", "/", "b">>
    /\ last.out.URL # <<>>

(***************************************************************************)
(* SpecSave: SaveListing called one call after the other on the listings   *)
(* of SaveInputs, while stored records may expire.                         *)
(***************************************************************************)
ElemNoLink(t) == [titles |-> OnlyFirst(Text(t), NumTitleSelectors),
                  prices |-> OnlyFirst(NoMatch, NumPriceSelectors),
                  link |-> NoMatch]

SaveInputs ==
    {None,
     [parseListingElement(ElemA, 0) EXCEPT !.ID = <<>>],
     parseListingElement(ElemA, 0),
     parseListingElement(ElemNoLink(<<"a">>), 0),
     parseListingElement(ElemNoLink(<<"b">>), 0)}

IdOf(l) == IF l = None THEN <<>> ELSE l.ID

InitSave ==
    /\ pc = "idle"
    /\ currentPage = 1 /\ totalPages = 0 /\ totalNewListings = 0
    /\ retry = 0 /\ tries = 0 /\ hasL = FALSE /\ listingCount = 0 /\ err = FALSE
    /\ listings = <<>> /\ idx = 0 /\ newListingsCount = 0
    /\ handles = {} /\ store = EmptyStore /\ exited = FALSE
    /\ endReason = "none" /\ skipped = FALSE /\ consecFails = 0 /\ tally = NoTally
    /\ clock = 0 /\ work = <<>> /\ last = None /\ prev = None
    /\ drv = None /\ log = <<>>
    /\ pageIn = None /\ verdict = None /\ fetchRes = None /\ procs = <<>>

\* a finished call of SaveListing, or an expiry, in the history
SaveEvent(l, absent, ok, result, sets) ==
    [ev |-> "save", id |-> IdOf(l), absent |-> absent, ok |-> ok,
     result |-> result, sets |-> sets]
ExpireEvent(k) ==
    [ev |-> "expire", id |-> k, absent |-> FALSE, ok |-> TRUE, result |-> "", sets |-> 0]

\* SaveListing is called with l and runs up to its existence check
CallSaveListing ==
    /\ pc = "idle" /\ drv = None /\ Len(log) < MaxLog
    /\ \E l \in SaveInputs, existsOK \in BOOLEAN :
          LET r == SaveListingCheck(l, store, existsOK)
              absent == IdOf(l) \notin DOMAIN store
          IN  IF r = "write"
              THEN /\ drv' = [kind |-> "call", listing |-> l, absent |-> absent]
                   /\ log' = log
              ELSE /\ drv' = None
                   /\ log' = Append(log, SaveEvent(l, absent, existsOK, r, 0))
    /\ UNCHANGED <<cycleVars, store, extractVars, pageVars, raceVars>>

\* the call in progress serializes the listing, issues its Set and returns
ReturnSaveListing ==
    /\ pc = "idle" /\ drv # None
    /\ \E setOK \in BOOLEAN :
          LET w == SaveListingWrite(drv.listing, store, setOK)
          IN  /\ store' = w.store
              /\ log' = Append(log, SaveEvent(drv.listing, drv.absent, setOK, w.result, 1))
    /\ drv' = None
    /\ UNCHANGED <<cycleVars, extractVars, pageVars, raceVars>>

\* a stored record reaches the end of its time to live
ExpireRecord ==
    /\ pc = "idle" /\ Len(log) < MaxLog
    /\ \E k \in DOMAIN store :
          /\ store' = StoreExpire(store, k)
          /\ log' = Append(log, ExpireEvent(k))
    /\ UNCHANGED <<cycleVars, extractVars, drv, pageVars, raceVars>>

NextSave ==
    \/ CallSaveListing
    \/ ReturnSaveListing
    \/ ExpireRecord

SpecSave == InitSave /\ [][NextSave]_vars

\* calls i and j of the history are two successive calls for the same
\* non-empty id, the key was absent before call i, nothing happened to the
\* key in between and every store call of both succeeded
SuccessivePair(i, j) ==
    /\ i < j
    /\ log[i].ev = "save" /\ log[j].ev = "save"
    /\ log[i].id = log[j].id /\ log[i].id # <<>>
    /\ log[i].absent /\ log[i].ok /\ log[j].ok
    /\ \A k \in (i + 1)..(j - 1) : log[k].id # log[i].id

\* C1: two successive SaveListing calls with the same id return nil and
\* then "listing already exists", and the store receives exactly one Set.
SaveTwiceSavesOnce ==
    \A i, j \in 1..Len(log) :
        SuccessivePair(i, j)
            => /\ log[i].result = "nil"
               /\ log[j].result = "listing already exists"
               /\ log[i].sets + log[j].sets = 1

\* C1 witness: a listing was saved and then offered again
SavedThenOfferedAgain ==
    \E i, j \in 1..Len(log) :
        SuccessivePair(i, j) /\ log[j].result = "listing already exists"

\* the latest event of a history
Latest(q) == q[Len(q)]

\* this step finishes a call of SaveListing
CallFinishes == Len(log') = Len(log) + 1 /\ Latest(log').ev = "save"

\* C19: the store changes only by an expiry or by a call that returns nil,
\* which adds the record of its id, absent until then, and alters nothing
\* else; a call that returns an error leaves the store as it was; a call with
\* a nil listing or an empty id is rejected whatever the store would answer,
\* and no rejected call issues a Set.
StoreChangesOnlyWhenSaved ==
    /\ [][store' # store =>
              \/ Len(log') = Len(log) + 1 /\ Latest(log').ev = "expire"
              \/ /\ CallFinishes
                 /\ Latest(log').result = "nil" /\ Latest(log').sets = 1
                 /\ Latest(log').id \notin DOMAIN store
                 /\ DOMAIN store' = DOMAIN store \cup {Latest(log').id}
                 /\ \A k \in DOMAIN store : store'[k] = store[k]]_vars
    /\ [][CallFinishes /\ Latest(log').result # "nil" => store' = store]_vars
    /\ [](\A i \in 1..Len(log) :
             log[i].ev = "save" =>
                /\ log[i].id = <<>> =>
                      log[i].result \in {"listing is nil", "listing ID is empty"}
                /\ log[i].result \in {"listing is nil", "listing ID is empty",
                                      "failed to check if listing exists",
                                      "listing already exists"} => log[i].sets = 0)

\* C19 witness: a call was rejected for its empty id and another because the
\* key exists, and the record saved before them is still stored
RejectedCallsLeftStore ==
    /\ \E i \in 1..Len(log) : log[i].ev = "save" /\ log[i].id = <<>>
    /\ \E i \in 1..Len(log) :
          /\ log[i].result = "listing already exists"
          /\ log[i].id \in DOMAIN store

(***************************************************************************)
(* SpecRace: SaveListing called by one worker or by several workers at the *)
(* same time on one store. A call is two steps, the existence check and    *)
(* the write, and the steps of different workers interleave. No record     *)
(* expires, so two writes of one key are two writes of the same record.    *)
(***************************************************************************)
\* workers calling SaveListing
MaxWorkers == 2

\* two listings with the same id and different titles, and a third listing
RaceInputs ==
    {parseListingElement(ElemNoLink(<<"a">>), 0),
     parseListingElement(ElemNoLink(<<"b">>), 0),
     parseListingElement(ElemA, 0)}

InitRace ==
    /\ pc = "race"
    /\ currentPage = 1 /\ totalPages = 0 /\ totalNewListings = 0
    /\ retry = 0 /\ tries = 0 /\ hasL = FALSE /\ listingCount = 0 /\ err = FALSE
    /\ listings = <<>> /\ idx = 0 /\ newListingsCount = 0
    /\ handles = {} /\ store = EmptyStore /\ exited = FALSE
    /\ endReason = "none" /\ skipped = FALSE /\ consecFails = 0 /\ tally = NoTally
    /\ clock = 0 /\ work = <<>> /\ last = None /\ prev = None
    /\ drv = None /\ log = <<>>
    /\ pageIn = None /\ verdict = None /\ fetchRes = None
    /\ procs \in {[w \in 1..n |-> None] : n \in 1..MaxWorkers}

\* the calls started so far
CallsStarted == Len(log) + Cardinality({w \in DOMAIN procs : procs[w] # None})

\* worker w calls SaveListing, which runs up to its existence check
RaceCall(w) ==
    /\ pc = "race" /\ procs[w] = None /\ CallsStarted < MaxLog
    /\ \E l \in RaceInputs, existsOK \in BOOLEAN :
          LET r == SaveListingCheck(l, store, existsOK)
              absent == IdOf(l) \notin DOMAIN store
          IN  IF r = "write"
              THEN /\ procs' = [procs EXCEPT
                                  ![w] = [kind |-> "call", listing |-> l, absent |-> absent]]
                   /\ log' = log
              ELSE /\ procs' = procs
                   /\ log' = Append(log, SaveEvent(l, absent, existsOK, r, 0))
    /\ UNCHANGED <<cycleVars, store, extractVars, drv, pageVars>>

\* the call of worker w serializes the listing, issues its Set and returns
RaceReturn(w) ==
    /\ pc = "race" /\ procs[w] # None
    /\ \E setOK \in BOOLEAN :
          LET w2 == SaveListingWrite(procs[w].listing, store, setOK)
          IN  /\ store' = w2.store
              /\ log' = Append(log, SaveEvent(procs[w].listing, procs[w].absent, setOK,
                                              w2.result, 1))
    /\ procs' = [procs EXCEPT ![w] = None]
    /\ UNCHANGED <<cycleVars, extractVars, drv, pageVars>>

NextRace ==
    \/ \E w \in DOMAIN procs : RaceCall(w)
    \/ \E w \in DOMAIN procs : RaceReturn(w)

SpecRace == InitRace /\ [][NextRace]_vars

\* calls i and j of the history both returned nil for the same id
SavedTwice(i, j) ==
    /\ i < j
    /\ log[i].ev = "save" /\ log[j].ev = "save"
    /\ log[i].result = "nil" /\ log[j].result = "nil"
    /\ log[i].id = log[j].id

\* C18: two calls return nil for the same id only when more than one worker
\* calls SaveListing, and then both calls saw the key absent at their
\* existence check; with a single worker no id is saved twice.
CheckThenWriteRace ==
    \A i, j \in 1..Len(log) :
        SavedTwice(i, j) => Len(procs) > 1 /\ log[i].absent /\ log[j].absent

\* C18 witness: two workers, and both calls for one id have returned nil
BothWorkersSaved ==
    /\ Len(procs) = 2
    /\ \E i, j \in 1..Len(log) : SavedTwice(i, j) /\ log[i].sets = 1 /\ log[j].sets = 1

(***************************************************************************)
(* SpecPage: hasListings and ParseListings applied to one rendered page.   *)
(* The page is what the renderer does with it: whether it opens and loads, *)
(* and what each of the three selector candidates returns.                 *)
(***************************************************************************)
\* elements per selector answer
MaxElems == 5

ElemB == ElemNoLink(<<"b">>)
PageElems == {ElemA, ElemB, ElemBad, None}
ThreeElems == Found(<<ElemA, ElemA, ElemA>>)

ElementLists == SeqsUpTo(PageElems, MaxElems) \ {<<>>}

\* the lists no longer than the threshold of hasListings
ShortLists == {es \in ElementLists : Len(es) <= MinListings}

\* the first candidate returns a list of ElementLists and the others nothing,
\* or one candidate returns a list of ShortLists, the candidates before it
\* fail or return nothing and those after it return nothing or three
\* elements, or no candidate returns elements
PageAnswers ==
    {<<Found(es), Found(<<>>), Found(<<>>)>> : es \in ElementLists}
        \cup {<<Found(es), ThreeElems, Found(<<>>)>> : es \in ShortLists}
        \cup {<<a, Found(es), c>> : es \in ShortLists, a \in {QueryErr, Found(<<>>)},
                                    c \in {Found(<<>>), ThreeElems}}
        \cup {<<a, b, Found(es)>> : es \in ShortLists,
                                    a \in {QueryErr, Found(<<>>)}, b \in {QueryErr, Found(<<>>)}}
        \cup {<<a, Found(<<>>), c>> : a \in {QueryErr, Found(<<>>)}, c \in {QueryErr, Found(<<>>)}}

PageInputs ==
    {[ok |-> TRUE, answers |-> a] : a \in PageAnswers}
        \cup {[ok |-> FALSE, answers |-> <<ThreeElems, Found(<<>>), Found(<<>>)>>]}

InitPage ==
    /\ pc = "page"
    /\ currentPage = 1 /\ totalPages = 0 /\ totalNewListings = 0
    /\ retry = 0 /\ tries = 0 /\ hasL = FALSE /\ listingCount = 0 /\ err = FALSE
    /\ listings = <<>> /\ idx = 0 /\ newListingsCount = 0
    /\ handles = {} /\ store = EmptyStore /\ exited = FALSE
    /\ endReason = "none" /\ skipped = FALSE /\ consecFails = 0 /\ tally = NoTally
    /\ clock = 0 /\ work = <<>> /\ last = None /\ prev = None
    /\ drv = None /\ log = <<>>
    /\ pageIn \in PageInputs /\ verdict = None /\ fetchRes = None /\ procs = <<>>

\* one call of hasListings on the page
CallHasListings ==
    /\ pc = "page" /\ verdict = None
    /\ verdict' = IF pageIn.ok THEN hasListingsLoaded(pageIn.answers) ELSE CallFailed
    /\ UNCHANGED <<cycleVars, store, extractVars, saveVars, pageIn, fetchRes, raceVars>>

\* one call of ParseListings on the page
CallParseListings ==
    /\ pc = "page" /\ fetchRes = None
    /\ fetchRes' = IF pageIn.ok THEN ParseListingsLoaded(pageIn.answers, clock)
                   ELSE FetchFailed
    /\ UNCHANGED <<cycleVars, store, extractVars, saveVars, pageIn, verdict, raceVars>>

NextPageCall ==
    \/ CallHasListings
    \/ CallParseListings

SpecPage == InitPage /\ [][NextPageCall]_vars

\* the first selector candidate that returns one or more elements, 0 if none
FirstWithElements(answers) ==
    LET S == {i \in 1..Len(answers) : ~answers[i].err /\ Len(answers[i].elems) > 0}
    IN  IF S = {} THEN 0 ELSE CHOOSE i \in S : \A j \in S : i <= j

\* the elements that candidate returns
ElementsOf(answers) ==
    IF FirstWithElements(answers) = 0 THEN <<>>
    ELSE answers[FirstWithElements(answers)].elems

\* the positions of the non-nil elements whose extraction succeeds
Extractable(es, now) ==
    {i \in 1..Len(es) : es[i] # None /\ parseListingElement(es[i], now).kind = "listing"}

\* the k-th smallest member of a set of positions
Nth(S, k) == CHOOSE i \in S : Cardinality({j \in S : j <= i}) = k

\* C15: on a loaded page ParseListings returns no error and, in element
\* order, exactly the Listing of every non-nil element whose extraction
\* succeeds.
ElementFailuresStayLocal ==
    fetchRes # None /\ pageIn.ok =>
        LET es == ElementsOf(pageIn.answers)
            good == Extractable(es, clock)
        IN  /\ ~fetchRes.err
            /\ Len(fetchRes.listings) = Cardinality(good)
            /\ \A k \in 1..Cardinality(good) :
                   fetchRes.listings[k] = parseListingElement(es[Nth(good, k)], clock)

\* C15 witness: five elements, two of them without a title, three Listings
ThreeOfFiveExtracted ==
    /\ fetchRes # None /\ pageIn.ok
    /\ Len(ElementsOf(pageIn.answers)) = 5
    /\ Cardinality({i \in 1..5 : ElementsOf(pageIn.answers)[i] = ElemBad}) = 2
    /\ Len(fetchRes.listings) = 3
    /\ fetchRes.listings[1].ID # fetchRes.listings[3].ID

\* C20: on a loaded page hasListings returns no error, the number of non-nil
\* elements of the first candidate that returns elements (0 if none does),
\* and valid exactly when that number is at least 3.
ValidityThreshold ==
    verdict # None /\ pageIn.ok =>
        LET es == ElementsOf(pageIn.answers)
            count == Cardinality({i \in 1..Len(es) : es[i] # None})
        IN  /\ ~verdict.err
            /\ verdict.count = count
            /\ verdict.valid = (count >= 3)

\* C20 witness: the first candidate fails, the second returns exactly three
\* non-nil elements and the third returns elements too
ExactlyThreeIsValid ==
    /\ verdict # None /\ pageIn.ok
    /\ pageIn.answers[1] = QueryErr
    /\ FirstWithElements(pageIn.answers) = 2
    /\ Len(pageIn.answers[3].elems) > 0
    /\ verdict.count = 3 /\ verdict.valid

\* a renderer call of hasListings failed on the page: the page did not open
\* or load, or no candidate returned elements and the query that ended the
\* selector loop failed
RendererFailed(in) ==
    \/ ~in.ok
    \/ FirstWithElements(in.answers) = 0 /\ in.answers[Len(in.answers)].err

\* C21: whenever a renderer call inside hasListings fails, hasListings
\* returns an error (which the controller retries), never a successful check
\* of an insufficient page.
RendererErrorIsFailure ==
    verdict # None /\ RendererFailed(pageIn) => verdict.err

=============================================================================
